---- MODULE Spec2Model ----
(***************************************************************************)
(* Model of app.py, the Streamlit checklist page "Weekly Schedule (Helen)". *)
(*                                                                         *)
(* Every script run of the page loads the Excel log (Google Drive), shows   *)
(* the tasks of the selected date with their checkboxes pre-filled from the *)
(* log, and on Save appends one row per visible task and writes the whole   *)
(* workbook back (Drive, or the file local_log.xlsx as a fallback).         *)
(*                                                                         *)
(* Dates are day ordinals: ordinal 0 is Monday 2024-06-10, so ordinal 2 is  *)
(* Wednesday 2024-06-12.  Task texts are abbreviated to their first words.  *)
(* datetime.utcnow() is a clock that advances between two saves; its        *)
(* isoformat() strings compare as the instants do, so a timestamp is kept   *)
(* as the clock's number.                                                   *)
(***************************************************************************)
EXTENDS Integers, Sequences, FiniteSets, TLC

\* ------------------------------------------------------------------ bounds
\* script runs (loads of the page) in one behaviour
MaxRuns == 2
\* presses of the Save button in one behaviour
MaxSaves == 2
\* two concurrent sessions pick among the date ordinals 2..MaxDate
\* (Wednesday 2024-06-12 onwards)
MaxDate == 3
\* a single session picks among the date ordinals 0..MaxPageDate
MaxPageDate == 6
\* the resolver is called with the weekday names of the ordinals 0..MaxOrdinal
MaxOrdinal == 59
\* widgets the user changes on one page: a "Check all" box ticked, a task
\* checkbox toggled, a note typed
MaxGestures == 1

\* concurrent browser sessions, each running the script on its own
Sessions == {"s1", "s2"}
\* texts typed into the notes box
Notes == {"", "ran out of trash bags"}

\* ------------------------------------------------- schedule configuration
DAYS == <<"Wednesday", "Thursday", "Friday", "Saturday", "Sunday">>

DAILY_TASKS ==
  << "Open windows", "Rinse/wash dishes", "Wipe dining table",
     "Sweep or spot-vacuum", "Hoover or run robot", "Clean toilets",
     "Litter room", "Wipe stovetop", "Take out trash", "Laundry - sort",
     "Laundry - fold", "Wash water pet bowl", "Laundry - iron" >>

EVERY2_TASKS == << "Mop all floors", "Wipe lower window panes" >>

\* the every-2-days days counted from Thursday
EVERY2_DAYS_from_thursday == {"Thursday", "Saturday"}

EVERY2_DAYS == {"Wednesday", "Friday", "Sunday"}

WEEKLY_TASKS_THU ==
  << "Litter tray", "Pantry quick tidy", "Squeegee shower tiles",
     "Mirrors & glass doors", "Clean house entry area", "Refill Soap" >>

WEEKLY_TASKS_SAT ==
  << "Oven", "Microwave", "Fridge", "Terrace clean", "Disinfect doors" >>

\* ----------------------------------------------------------------- helpers
Range(s) == {s[i] : i \in 1..Len(s)}

IsPrefix(s, t) == Len(s) <= Len(t) /\ \A i \in 1..Len(s) : s[i] = t[i]

\* date.strftime("%A"): date.weekday() counts from Monday
WeekdayNames ==
  << "Monday", "Tuesday", "Wednesday", "Thursday", "Friday", "Saturday",
     "Sunday" >>

weekday_name(d) == WeekdayNames[(d % 7) + 1]

\* date.isoformat() of the ordinals the date picker offers
IsoDates ==
  << "2024-06-10", "2024-06-11", "2024-06-12", "2024-06-13", "2024-06-14",
     "2024-06-15", "2024-06-16", "2024-06-17", "2024-06-18", "2024-06-19" >>

isoformat(d) == IsoDates[d + 1]

Dates == 2..MaxDate

PageDates == 0..MaxPageDate

\* ------------------------------------------------------ schedule resolver
\* the Saturday group tested against the wrong name
tasks_for_day_wrong_day(day_name) ==
  LET tasks0 == DAILY_TASKS
      tasks1 == IF day_name \in EVERY2_DAYS THEN tasks0 \o EVERY2_TASKS ELSE tasks0
      tasks2 == IF day_name = "Thursday" THEN tasks1 \o WEEKLY_TASKS_THU ELSE tasks1
      tasks3 == IF day_name = "Sunday" THEN tasks2 \o WEEKLY_TASKS_SAT ELSE tasks2
  IN  tasks3

\* the every-2-days tasks added on Thursday too
tasks_for_day_thu_every2(day_name) ==
  LET tasks0 == DAILY_TASKS
      tasks1 == IF day_name \in EVERY2_DAYS \cup {"Thursday"}
                  THEN tasks0 \o EVERY2_TASKS ELSE tasks0
      tasks2 == IF day_name = "Thursday" THEN tasks1 \o WEEKLY_TASKS_THU ELSE tasks1
      tasks3 == IF day_name = "Saturday" THEN tasks2 \o WEEKLY_TASKS_SAT ELSE tasks2
  IN  tasks3

tasks_for_day(day_name) ==
  LET tasks0 == DAILY_TASKS
      tasks1 == IF day_name \in EVERY2_DAYS THEN tasks0 \o EVERY2_TASKS ELSE tasks0
      tasks2 == IF day_name = "Thursday" THEN tasks1 \o WEEKLY_TASKS_THU ELSE tasks1
      tasks3 == IF day_name = "Saturday" THEN tasks2 \o WEEKLY_TASKS_SAT ELSE tasks2
  IN  tasks3

\* ------------------------------------------------------------ workbook I/O
\* A stored workbook: kind "missing" (no file of that name), "xlsx" (a
\* workbook with a 'log' sheet holding rows), "zero_bytes" (an empty file),
\* "garbage" (bytes that are no workbook), "no_log_sheet" (a workbook without
\* a 'log' sheet).
DegenerateKinds == {"missing", "zero_bytes", "garbage", "no_log_sheet"}

\* pd.ExcelFile raises on these
Unreadable == {"zero_bytes", "garbage"}

\* the value of a call that raised
Raised == <<"raised">>

NoFile == [kind |-> "missing", rows |-> <<>>]

\* what pandas holds for an empty cell
NaN == "#NaN"

\* an empty DataFrame with the six log columns
EmptyFrame == <<>>

\* pandas.read_excel: an empty cell is read as NaN
read_cell(c) == IF c = "" THEN NaN ELSE c

\* DataFrame.to_excel: NaN is written as an empty cell
write_cell(v) == IF v = NaN THEN "" ELSE v

_empty_log_excel_bytes == [kind |-> "xlsx", rows |-> <<>>]

\* pd.read_excel(xls, sheet_name="log")
read_excel(xls_bytes) ==
  [i \in 1..Len(xls_bytes.rows) |->
     [xls_bytes.rows[i] EXCEPT !.note = read_cell(@)]]

\* without the try/except: pd.ExcelFile's exception leaves the function
_load_log_df_from_bytes_no_except(xls_bytes) ==
  IF xls_bytes.kind \in Unreadable
    THEN Raised
    ELSE IF xls_bytes.kind = "xlsx"
           THEN read_excel(xls_bytes)
           ELSE EmptyFrame

_load_log_df_from_bytes(xls_bytes) ==
  IF xls_bytes.kind \in Unreadable
    THEN EmptyFrame                      \* except Exception
    ELSE IF xls_bytes.kind = "xlsx"      \* "log" in xls.sheet_names
           THEN read_excel(xls_bytes)
           ELSE EmptyFrame

\* an upload that appends the rows the stored file lacks instead of
\* replacing its content
_upload_excel_append(stored, data) ==
  LET Lacking(row) == \A i \in 1..Len(stored.rows) : stored.rows[i] # row
  IN  [kind |-> "xlsx", rows |-> stored.rows \o SelectSeq(data.rows, Lacking)]

\* _upload_excel: files().update with the bytes as the file's whole content
_upload_excel(stored, data) == data

_save_log_df_to_bytes(df) ==
  [kind |-> "xlsx",
   rows |-> [i \in 1..Len(df) |-> [df[i] EXCEPT !.note = write_cell(@)]]]

\* ---------------------------------------------------------- app helper logic
EmptyDict == [t \in {} |-> FALSE]

\* log_df[log_df["date"] == dstr]
RECURSIVE FilterDate(_, _)
FilterDate(df, dstr) ==
  IF df = <<>> THEN <<>>
  ELSE LET rest == FilterDate(Tail(df), dstr)
       IN  IF Head(df).date = dstr THEN <<Head(df)>> \o rest ELSE rest

\* DataFrame.sort_values("timestamp"): ascending; rows of one timestamp are
\* rows of one save and so of different tasks, and the order among them does
\* not reach the per-task tail below: they keep their frame order here.
SortPos(df, i) ==
  1 + Cardinality({j \in 1..Len(df) :
                     \/ df[j].timestamp < df[i].timestamp
                     \/ (df[j].timestamp = df[i].timestamp /\ j < i)})

sort_values(df) ==
  LET pos == [i \in 1..Len(df) |-> SortPos(df, i)]
  IN  [k \in 1..Len(df) |-> df[CHOOSE i \in 1..Len(df) : pos[i] = k]]

\* sub.groupby("task").tail(1): the index of the last row of the task's group
GroupTail(df, task) ==
  CHOOSE i \in 1..Len(df) :
    /\ df[i].task = task
    /\ \A j \in (i + 1)..Len(df) : df[j].task # task

latest_status_map(log_df, target_date) ==
  IF log_df = EmptyFrame THEN EmptyDict
  ELSE LET dstr == isoformat(target_date)
           sub == FilterDate(log_df, dstr)
       IN  IF sub = <<>> THEN EmptyDict
           ELSE LET sorted == sort_values(sub)
                IN  [t \in {sorted[i].task : i \in 1..Len(sorted)} |->
                       sorted[GroupTail(sorted, t)].completed # 0]

\* the rows dated date.today() (the model's today: Wednesday 2024-06-12)
\* instead of the selected date
upsert_log_today(log_df, target_date, day_name, task_status, note, now) ==
  LET to_add == [i \in 1..Len(task_status) |->
                   [timestamp |-> now,
                    date |-> isoformat(2),
                    day |-> day_name,
                    task |-> task_status[i].task,
                    completed |-> IF task_status[i].done THEN 1 ELSE 0,
                    note |-> IF note # "" THEN note ELSE ""]]
  IN  IF log_df = EmptyFrame THEN to_add ELSE log_df \o to_add

\* task_status: the dict all_states, a sequence of [task, done] in insertion
\* order; now: datetime.utcnow() as read by the call
upsert_log(log_df, target_date, day_name, task_status, note, now) ==
  LET to_add == [i \in 1..Len(task_status) |->
                   [timestamp |-> now,
                    date |-> isoformat(target_date),
                    day |-> day_name,
                    task |-> task_status[i].task,
                    completed |-> IF task_status[i].done THEN 1 ELSE 0,
                    note |-> IF note # "" THEN note ELSE ""]]
  IN  IF log_df = EmptyFrame THEN to_add ELSE log_df \o to_add

\* ------------------------------------------------------------------ the page
\* prefill.get(task, False)
default_val(prefill, task) ==
  IF task \in DOMAIN prefill THEN prefill[task] ELSE FALSE

\* The user's input to one run: check_all, the titles of the sections whose
\* "Check all" box is ticked; toggled, the task checkboxes whose value the
\* user changed from the pre-filled one.
render_section(title, task_list, prefill, check_all, toggled) ==
  [i \in 1..Len(task_list) |->
     [task |-> task_list[i],
      done |-> \/ title \in check_all
               \/ (default_val(prefill, task_list[i]) # (task_list[i] \in toggled))]]

\* the page's every-2-days rule without Sunday
every2_visible_no_sunday(sel_day) == sel_day \in {"Wednesday", "Friday"}

every2_visible(sel_day) == sel_day \in {"Wednesday", "Friday", "Sunday"}

weekly_section(sel_day) ==
  IF sel_day = "Thursday" THEN <<"WEEKLY TASKS (Thursday)", WEEKLY_TASKS_THU>>
  ELSE IF sel_day = "Saturday" THEN <<"WEEKLY TASKS (Saturday)", WEEKLY_TASKS_SAT>>
  ELSE <<"", <<>>>>

\* the sections the page renders for the selected day, as <<title, task_list>>
visible_sections(sel_day) ==
  <<  <<"DAILY TASKS", DAILY_TASKS>>  >>
  \o (IF every2_visible(sel_day) THEN << <<"EVERY 2 DAYS", EVERY2_TASKS>> >> ELSE <<>>)
  \o (IF weekly_section(sel_day)[1] # "" THEN <<weekly_section(sel_day)>> ELSE <<>>)

RECURSIVE merge_states(_, _, _, _)
\* all_states = {**daily_states, **every2_states, **weekly_states}
merge_states(sections, prefill, check_all, toggled) ==
  IF sections = <<>> THEN <<>>
  ELSE render_section(Head(sections)[1], Head(sections)[2], prefill, check_all, toggled)
         \o merge_states(Tail(sections), prefill, check_all, toggled)

all_states_of(sel_day, prefill, check_all, toggled) ==
  merge_states(visible_sections(sel_day), prefill, check_all, toggled)

\* the keys of a dict kept as a sequence of [task, done]
Keys(states) == [i \in 1..Len(states) |-> states[i].task]

\* inputs the model lets the user give on a day's page
SectionTitles(sel_day) ==
  {visible_sections(sel_day)[i][1] : i \in 1..Len(visible_sections(sel_day))}

\* the checkboxes the user may toggle: the first of each rendered section
Toggleable(sel_day) ==
  {visible_sections(sel_day)[i][2][1] : i \in 1..Len(visible_sections(sel_day))}

Gestures(check_all, toggled, note) ==
  Cardinality(check_all) + Cardinality(toggled) + (IF note # "" THEN 1 ELSE 0)

\* -------------------------------------------------------------------- state
VARIABLES
  gdrive_secret,  \* st.secrets has a "gdrive" entry (fixed for a deployment)
  drive_file,     \* the workbook named fname on Google Drive
  local_file,     \* the file local_log.xlsx
  clock,          \* datetime.utcnow()
  run,            \* per session: the variables of its latest script run
  runs,           \* script runs started so far
  saves,          \* presses of the Save button so far
  last_saved,     \* history: (date, task) -> the completed value last saved
  r_pc, r_date, r_day, r_tasks   \* a caller of the resolver tasks_for_day

vars == << gdrive_secret, drive_file, local_file, clock, run, runs, saves,
           last_saved, r_pc, r_date, r_day, r_tasks >>

app_vars == << gdrive_secret, drive_file, local_file, clock, run, runs, saves,
               last_saved >>

resolver_vars == << r_pc, r_date, r_day, r_tasks >>

\* the script's module-level variables before a session's first run;
\* started, found_kind and upload_result are history: the clock when the run
\* began, what the run found under fname on Drive, what _upload_excel did
NoRun ==
  [pc |-> "idle", started |-> 0, sel_date |-> 0, sel_day |-> "",
   service |-> FALSE, file_id |-> "", loaded_from_drive |-> FALSE,
   found_kind |-> "", log_df |-> EmptyFrame, prefill |-> EmptyDict,
   all_states |-> <<>>, new_log |-> <<>>, uploads |-> 0,
   upload_result |-> "none", msgs |-> {}]

\* the id Drive gives the one file named fname
FileId == "file-1"

\* ------------------------------------------------------------------ actions
\* _find_file: the id of the file named fname, '' when there is none
_find_file(drive) == IF drive.kind = "missing" THEN "" ELSE FileId

\* Lines 248-261: the log is loaded from Drive, the file created when there
\* is none.  outcome: "ok", or the Drive call that raises inside the try.
\* The result: the Drive file after the block and the script's variables.
load_log(service, drive, outcome) ==
  LET found == IF service THEN _find_file(drive) ELSE ""
      creates == service /\ found = "" /\ outcome # "create_fails"
      drive1 == IF creates THEN _empty_log_excel_bytes ELSE drive
      downloaded == service /\ outcome = "ok"
      parsed == IF downloaded THEN _load_log_df_from_bytes(drive1) ELSE Raised
      done == downloaded /\ parsed # Raised
  IN  [drive |-> drive1,
       file_id |-> IF creates THEN FileId ELSE found,
       log_df |-> IF done THEN parsed ELSE EmptyFrame,
       loaded_from_drive |-> done,
       found_kind |-> IF downloaded THEN drive.kind ELSE "",
       msgs |-> IF service /\ ~done
                  THEN {<<"warning", "Drive access fallback to local (temp)">>}
                  ELSE {}]

\* Lines 237-241: the note shown for a day outside Wednesday..Sunday
day_info(sel_day) ==
  IF sel_day \notin Range(DAYS)
    THEN {<<"info", "Helen typically works Wednesday-Sunday">>}
    ELSE {}

\* Lines 233-264 of a script run: the date is picked, the log is loaded and
\* the prefill is computed.  A message is <<level, text>>, the level the
\* st.info, st.warning, st.error or st.success call that shows it.
Load(s, d, outcome) ==
  LET service == gdrive_secret
      l == load_log(service, drive_file, outcome)
  IN  /\ (outcome # "ok") => service
      /\ (outcome = "create_fails") => _find_file(drive_file) = ""
      /\ runs < MaxRuns
      /\ runs' = runs + 1
      /\ drive_file' = l.drive
      /\ run' = [run EXCEPT ![s] =
                   [pc |-> "loaded",
                    started |-> clock,
                    sel_date |-> d,
                    sel_day |-> weekday_name(d),
                    service |-> service,
                    file_id |-> l.file_id,
                    loaded_from_drive |-> l.loaded_from_drive,
                    found_kind |-> l.found_kind,
                    log_df |-> l.log_df,
                    prefill |-> latest_status_map(l.log_df, d),
                    all_states |-> <<>>,
                    new_log |-> <<>>,
                    uploads |-> 0,
                    upload_result |-> "none",
                    msgs |-> day_info(weekday_name(d)) \cup l.msgs]]
      /\ UNCHANGED << gdrive_secret, local_file, clock, saves, last_saved >>
      /\ UNCHANGED resolver_vars

\* the history of what was saved, for a save of task_status on date d
record_saved(hist, d, task_status) ==
  LET new == {<<isoformat(d), task_status[i].task>> : i \in 1..Len(task_status)}
      idx(p) == CHOOSE i \in 1..Len(task_status) : task_status[i].task = p[2]
  IN  [p \in DOMAIN hist \cup new |->
         IF p \in new THEN task_status[idx(p)].done ELSE hist[p]]

\* st.success after the try/except instead of inside the try
save_handler_success_after_try(r, new_log, drive, local, upload_ok) ==
  LET data_bytes == _save_log_df_to_bytes(new_log)
  IN  IF r.loaded_from_drive /\ r.service /\ r.file_id # ""
        THEN IF upload_ok
               THEN [drive |-> _upload_excel(drive, data_bytes),
                     local |-> local,
                     uploads |-> 1,
                     upload_result |-> "ok",
                     msgs |-> {<<"success", "Saved to Google Drive file">>}]
               ELSE [drive |-> drive,
                     local |-> data_bytes,
                     uploads |-> 1,
                     upload_result |-> "raised",
                     msgs |-> {<<"error", "Failed to save to Drive">>,
                               <<"info", "Saved to local file">>,
                               <<"success", "Saved to Google Drive file">>}]
        ELSE [drive |-> drive,
              local |-> data_bytes,
              uploads |-> 0,
              upload_result |-> "none",
              msgs |-> {<<"success", "Saved locally">>}]

\* Lines 308-323: the workbook is written.  r: the run's variables;
\* upload_ok: _upload_excel returns (it raises otherwise).  The result: the
\* two stored files after the block, the upload attempts made, the messages.
save_handler(r, new_log, drive, local, upload_ok) ==
  LET data_bytes == _save_log_df_to_bytes(new_log)
  IN  IF r.loaded_from_drive /\ r.service /\ r.file_id # ""
        THEN IF upload_ok
               THEN [drive |-> _upload_excel(drive, data_bytes),
                     local |-> local,
                     uploads |-> 1,
                     upload_result |-> "ok",
                     msgs |-> {<<"success", "Saved to Google Drive file">>}]
               ELSE [drive |-> drive,
                     local |-> data_bytes,
                     uploads |-> 1,
                     upload_result |-> "raised",
                     msgs |-> {<<"error", "Failed to save to Drive">>,
                               <<"info", "Saved to local file">>}]
        ELSE [drive |-> drive,
              local |-> data_bytes,
              uploads |-> 0,
              upload_result |-> "none",
              msgs |-> {<<"success", "Saved locally">>}]

\* Lines 266-324 of a script run in which Save is pressed: the sections are
\* rendered with the user's input, the rows are appended to the loaded frame
\* and the workbook is written.
Save(s, check_all, toggled, note, upload_ok) ==
  LET r == run[s]
      all_states == all_states_of(r.sel_day, r.prefill, check_all, toggled)
      new_log == upsert_log(r.log_df, r.sel_date, r.sel_day, all_states, note, clock)
      w == save_handler(r, new_log, drive_file, local_file, upload_ok)
  IN  /\ r.pc = "loaded"
      /\ saves < MaxSaves
      /\ check_all \subseteq SectionTitles(r.sel_day)
      /\ toggled \subseteq Toggleable(r.sel_day)
      /\ Gestures(check_all, toggled, note) <= MaxGestures
      /\ all_states # <<>>      \* else only the warning of line 304 is shown
      /\ upload_ok \/ (r.loaded_from_drive /\ r.service /\ r.file_id # "")
      /\ drive_file' = w.drive
      /\ local_file' = w.local
      /\ run' = [run EXCEPT ![s] =
                   [r EXCEPT !.pc = "saved",
                             !.all_states = all_states,
                             !.new_log = new_log,
                             !.uploads = w.uploads,
                             !.upload_result = w.upload_result,
                             !.msgs = @ \cup w.msgs]]
      /\ clock' = clock + 1
      /\ saves' = saves + 1
      /\ last_saved' = record_saved(last_saved, r.sel_date, all_states)
      /\ UNCHANGED << gdrive_secret, runs >>
      /\ UNCHANGED resolver_vars

\* --------------------------------------------------- a caller of the resolver
\* names that are no weekday
OtherNames == {"", "wednesday", "Funday"}

\* the caller names a date, whose weekday name is passed
ChooseDate(d) ==
  /\ r_pc = "start"
  /\ r_pc' = "named"
  /\ r_date' = d
  /\ r_day' = weekday_name(d)
  /\ UNCHANGED r_tasks
  /\ UNCHANGED app_vars

\* the caller passes a string of its own
ChooseName(n) ==
  /\ r_pc = "start"
  /\ r_pc' = "named"
  /\ r_day' = n
  /\ UNCHANGED << r_date, r_tasks >>
  /\ UNCHANGED app_vars

Resolve ==
  /\ r_pc = "named"
  /\ r_pc' = "done"
  /\ r_tasks' = tasks_for_day(r_day)
  /\ UNCHANGED << r_date, r_day >>
  /\ UNCHANGED app_vars

\* ------------------------------------------------------------ specification
\* The log starts without rows: no file, an empty log, or a file that is no
\* usable workbook.  Without the secret the Drive file is out of reach.
Init ==
  /\ gdrive_secret \in BOOLEAN
  /\ drive_file \in IF gdrive_secret
                      THEN {_empty_log_excel_bytes}
                             \cup {[kind |-> k, rows |-> <<>>] : k \in DegenerateKinds}
                      ELSE {NoFile}
  /\ local_file = NoFile
  /\ clock = 1
  /\ run = [s \in Sessions |-> NoRun]
  /\ runs = 0
  /\ saves = 0
  /\ last_saved = [p \in {} |-> FALSE]
  /\ r_pc = "start" /\ r_date = -1 /\ r_day = "" /\ r_tasks = <<>>

LoadOutcomes == {"ok", "create_fails", "download_fails"}

\* the runs of the sessions in ss on the dates in ds
AppNext(ss, ds) ==
  \/ \E s \in ss, d \in ds, outcome \in LoadOutcomes : Load(s, d, outcome)
  \/ \E s \in ss, note \in Notes, upload_ok \in BOOLEAN :
       \E check_all \in SUBSET SectionTitles(run[s].sel_day),
          toggled \in SUBSET Toggleable(run[s].sel_day) :
         Save(s, check_all, toggled, note, upload_ok)

\* two sessions side by side
Next == AppNext(Sessions, Dates)

Spec == Init /\ [][Next]_vars

\* one session, on every weekday
NextPage == AppNext({"s1"}, PageDates)

SpecPage == Init /\ [][NextPage]_vars

\* calls of tasks_for_day
NextResolver ==
  \/ \E d \in 0..MaxOrdinal : ChooseDate(d)
  \/ \E n \in OtherNames : ChooseName(n)
  \/ Resolve

SpecResolver == Init /\ [][NextResolver]_vars

\* ------------------------------------------------------------------- claims
\* the tasks whose checkboxes the page shows for a day
VisibleTasks(sel_day) == Keys(all_states_of(sel_day, EmptyDict, {}, {}))

\* the date ordinal an ISO date string names
DateOfIso(str) == CHOOSE d \in 0..(Len(IsoDates) - 1) : isoformat(d) = str

\* the timestamp of the rows a run's save appended
SaveTs(s) == run[s].new_log[Len(run[s].new_log)].timestamp

\* the rows a run's save appended
NewRows(s) ==
  LET IsNew(row) == row.timestamp = SaveTs(s)
  IN  SelectSeq(run[s].new_log, IsNew)

\* the run saved and its upload to Drive went through
DriveSaved(s) == run[s].pc = "saved" /\ run[s].upload_result = "ok"

\* C1: when a date is opened again, every task checkbox shown is pre-filled
\* with the completed value last saved for that (date, task), whatever the
\* saves before were; a task never saved for the date pre-fills unticked.
C1_PrefillIsLastSaved ==
  \A s \in Sessions :
    run[s].pc = "loaded" =>
      \A t \in Range(VisibleTasks(run[s].sel_day)) :
        default_val(run[s].prefill, t) =
          (IF <<isoformat(run[s].sel_date), t>> \in DOMAIN last_saved
             THEN last_saved[<<isoformat(run[s].sel_date), t>>]
             ELSE FALSE)

\* the document after holds the rows of the one before and n more
AppendedTo(before, after, n) ==
  /\ after.kind = "xlsx"
  /\ IsPrefix(before.rows, after.rows)
  /\ Len(after.rows) = Len(before.rows) + n

\* C2: the log is append-only: a save writes a document (on Drive or the
\* local file) that holds every row the stored log held before, unchanged
\* and in order, followed by one new row per visible task.
C2_AppendOnly ==
  [][saves' = saves + 1 =>
       \E s \in Sessions :
         /\ run[s].pc = "loaded" /\ run'[s].pc = "saved"
         /\ LET n == Len(VisibleTasks(run[s].sel_day))
            IN  \/ AppendedTo(drive_file, drive_file', n) /\ local_file' = local_file
                \/ AppendedTo(local_file, local_file', n) /\ drive_file' = drive_file]_vars

\* C3: tasks_for_day gives the Daily tasks in list order, then the
\* EveryTwoDays tasks iff the name is Wednesday, Friday or Sunday, then the
\* Weekly group bound to the name (Thursday's or Saturday's), never both
\* groups; for any other name, exactly the Daily list.
C3_DueTasks ==
  r_pc = "done" =>
    /\ r_tasks =
         DAILY_TASKS
         \o (IF r_day \in {"Wednesday", "Friday", "Sunday"} THEN EVERY2_TASKS ELSE <<>>)
         \o (IF r_day = "Thursday" THEN WEEKLY_TASKS_THU ELSE <<>>)
         \o (IF r_day = "Saturday" THEN WEEKLY_TASKS_SAT ELSE <<>>)
    /\ ~ /\ Range(WEEKLY_TASKS_THU) \cap Range(r_tasks) # {}
         /\ Range(WEEKLY_TASKS_SAT) \cap Range(r_tasks) # {}
    /\ r_day \notin {"Wednesday", "Thursday", "Friday", "Saturday", "Sunday"}
         => r_tasks = DAILY_TASKS

C3_Witness == r_pc = "done" /\ r_day = "Saturday" /\ Len(r_tasks) = 18

\* C4: tasks_for_day("Wednesday") is the 13 Daily tasks followed by the 2
\* EveryTwoDays tasks, 15 items, none of them a Weekly task.
C4_Wednesday ==
  (r_pc = "done" /\ r_day = "Wednesday") =>
    /\ Len(r_tasks) = 15
    /\ SubSeq(r_tasks, 1, 13) = DAILY_TASKS
    /\ SubSeq(r_tasks, 14, 15) = EVERY2_TASKS
    /\ Range(r_tasks) \cap (Range(WEEKLY_TASKS_THU) \cup Range(WEEKLY_TASKS_SAT)) = {}

C4_Witness == r_pc = "done" /\ r_day = "Wednesday" /\ r_date = 2

\* C5: tasks_for_day("Thursday") is the 13 Daily tasks followed by the 6
\* Thursday tasks, 19 items, with no EveryTwoDays and no Saturday task.
C5_Thursday ==
  (r_pc = "done" /\ r_day = "Thursday") =>
    /\ Len(r_tasks) = 19
    /\ SubSeq(r_tasks, 1, 13) = DAILY_TASKS
    /\ SubSeq(r_tasks, 14, 19) = WEEKLY_TASKS_THU
    /\ Range(r_tasks) \cap (Range(EVERY2_TASKS) \cup Range(WEEKLY_TASKS_SAT)) = {}

C5_Witness == r_pc = "done" /\ r_day = "Thursday" /\ r_date = 3

C7_UploadFailureReported ==
  \A s \in Sessions :
    /\ run[s].uploads <= 1
    /\ run[s].upload_result = "raised" =>
         /\ run[s].pc = "saved"
         /\ run[s].uploads = 1
         /\ <<"error", "Failed to save to Drive">> \in run[s].msgs
         /\ <<"success", "Saved to Google Drive file">> \notin run[s].msgs

C7_Witness ==
  \E s \in Sessions : run[s].upload_result = "raised" /\ run[s].pc = "saved"

\* C8: a save to Drive replaces the document by the saving run's loaded
\* snapshot plus its new rows; when two runs both load before either saves
\* and both save, the document is the second writer's and holds none of the
\* first writer's new rows.
C8_LastWriteWins ==
  /\ \A s \in Sessions :
       (DriveSaved(s) /\ SaveTs(s) = clock - 1) =>
         drive_file = _save_log_df_to_bytes(run[s].log_df \o NewRows(s))
  /\ \A a, b \in Sessions :
       ( /\ a # b /\ DriveSaved(a) /\ DriveSaved(b)
         /\ run[a].started <= SaveTs(b) /\ run[b].started <= SaveTs(a)
         /\ SaveTs(a) < SaveTs(b) ) =>
         /\ drive_file = _save_log_df_to_bytes(run[b].log_df \o NewRows(b))
         /\ \A i \in 1..Len(drive_file.rows) :
              drive_file.rows[i].timestamp # SaveTs(a)

C8_Witness ==
  \E a, b \in Sessions :
    /\ a # b /\ DriveSaved(a) /\ DriveSaved(b)
    /\ run[a].started <= SaveTs(b) /\ run[b].started <= SaveTs(a)
    /\ SaveTs(a) < SaveTs(b)
    /\ Len(NewRows(a)) > 0
    /\ run[a].sel_date = run[b].sel_date

\* C9: the tasks a page renders and saves (the keys of all_states) are, in
\* order, the tasks tasks_for_day returns for the weekday of the date.
C9_PageAgreesWithResolver ==
  \A s \in Sessions :
    run[s].pc = "saved" =>
      Keys(run[s].all_states) = tasks_for_day(weekday_name(run[s].sel_date))

C9_Witness ==
  \E s \in Sessions :
    /\ run[s].pc = "saved"
    /\ run[s].sel_day = "Saturday"
    /\ Len(run[s].all_states) = 18

\* the row's day is the weekday of its date and its task is due on that day
RowIsDue(row) ==
  /\ row.day = weekday_name(DateOfIso(row.date))
  /\ row.task \in Range(tasks_for_day(row.day))

\* C10: starting from a log without rows, every row of the stored logs has
\* the weekday name of its date as its day and a task that is due on that
\* weekday.
C10_RowsAreDue ==
  \A doc \in {drive_file, local_file} :
    \A i \in 1..Len(doc.rows) : RowIsDue(doc.rows[i])

C10_Witness ==
  /\ Len(drive_file.rows) > 19
  /\ \E i \in 1..Len(drive_file.rows) : drive_file.rows[i].day = "Sunday"
  /\ \E i \in 1..Len(drive_file.rows) : drive_file.rows[i].day = "Thursday"

====
